---- MODULE Spec2Model ----
(***************************************************************************)
(* Inventory tracker (src/app.py): a text menu over a two-table SQLite     *)
(* store (inventory, orders).                                              *)
(*                                                                         *)
(* Text is modelled as sequences of one-character strings, so that         *)
(* strip(), ORDER BY item (byte order) and the CSV writer are computed     *)
(* character by character.  Python None / SQL NULL is the empty sequence   *)
(* (the code never stores an empty note: `input().strip() or None`).       *)
(*                                                                         *)
(* Store semantics taken from SQLite as the code uses it:                  *)
(*  - INTEGER PRIMARY KEY without AUTOINCREMENT: a new row gets            *)
(*    max(rowid)+1, or 1 in an empty table;                                *)
(*  - the FOREIGN KEY clause is declared but PRAGMA foreign_keys is never  *)
(*    switched on, so it is not enforced;                                  *)
(*  - Python's sqlite3 opens the implicit transaction before the first     *)
(*    INSERT/UPDATE/DELETE, not before a SELECT; `with conn` commits on    *)
(*    normal exit and rolls back when an exception leaves the block.       *)
(***************************************************************************)
EXTENDS Integers, Sequences, FiniteSets, TLC

VARIABLES inventory, orders, now, exportFile, pc, loc, last

vars == <<inventory, orders, now, exportFile, pc, loc, last>>

(* ------------------------------ bounds --------------------------------- *)
MaxQty == 2
MaxId == 2
MaxOrders == 1

(* ------------------------------ text ----------------------------------- *)
NULL == <<>>

General == <<"G", "e", "n", "e", "r", "a", "l">>

IsSpace(c) == c \in {" ", "\t", "\n", "\r"}

RECURSIVE LStrip(_)
LStrip(s) == IF s # <<>> /\ IsSpace(Head(s)) THEN LStrip(Tail(s)) ELSE s

RECURSIVE RStrip(_)
RStrip(s) ==
  IF s # <<>> /\ IsSpace(s[Len(s)]) THEN RStrip(SubSeq(s, 1, Len(s) - 1)) ELSE s

Strip(s) == RStrip(LStrip(s))

LowerChar(c) == IF c = "A" THEN "a" ELSE IF c = "S" THEN "s" ELSE c

Lower(s) == [i \in 1..Len(s) |-> LowerChar(s[i])]

\* Byte value of the characters the model uses (ASCII).
Code(c) ==
  CASE c = "\t" -> 9  [] c = "\n" -> 10 [] c = "\r" -> 13 [] c = " " -> 32
    [] c = "\"" -> 34 [] c = "," -> 44
    [] c = "0" -> 48 [] c = "1" -> 49 [] c = "2" -> 50 [] c = "3" -> 51
    [] c = "4" -> 52 [] c = "5" -> 53 [] c = "6" -> 54 [] c = "7" -> 55
    [] c = "8" -> 56 [] c = "9" -> 57
    [] c = "A" -> 65 [] c = "G" -> 71 [] c = "S" -> 83 [] c = "T" -> 84
    [] c = "_" -> 95
    [] c = "a" -> 97 [] c = "b" -> 98 [] c = "c" -> 99 [] c = "d" -> 100
    [] c = "e" -> 101 [] c = "g" -> 103 [] c = "i" -> 105 [] c = "l" -> 108
    [] c = "n" -> 110 [] c = "o" -> 111 [] c = "q" -> 113 [] c = "r" -> 114
    [] c = "s" -> 115 [] c = "t" -> 116 [] c = "v" -> 118 [] c = "y" -> 121

\* SQLite's BINARY collation on TEXT: memcmp, the shorter prefix first.
RECURSIVE TextLess(_, _)
TextLess(a, b) ==
  IF b = <<>> THEN FALSE
  ELSE IF a = <<>> THEN TRUE
  ELSE IF Head(a) # Head(b) THEN Code(Head(a)) < Code(Head(b))
  ELSE TextLess(Tail(a), Tail(b))

(* ------------------------------ store ---------------------------------- *)
SetMax(S) == CHOOSE m \in S : \A x \in S : x <= m

\* id INTEGER PRIMARY KEY: the rowid SQLite assigns to an inserted row.
NextRowid(rows) == IF rows = {} THEN 1 ELSE SetMax({r.id : r \in rows}) + 1

\* SELECT id, qty FROM inventory WHERE item = ?  (item is UNIQUE: 0 or 1 row)
SelectItem(inv, item) == {r \in inv : r.item = item}

\* A bug: the conflict branch forgets category=excluded.category.
UpsertKeepCategory(inv, item, category, qty, reorder_level) ==
  IF \E r \in inv : r.item = item
  THEN {IF r.item = item
        THEN [r EXCEPT !.qty = qty, !.reorder_level = reorder_level]
        ELSE r : r \in inv}
  ELSE inv \cup {[id |-> NextRowid(inv), item |-> item, category |-> category,
                  qty |-> qty, reorder_level |-> reorder_level]}

\* INSERT INTO inventory ... ON CONFLICT(item) DO UPDATE SET ...
Upsert(inv, item, category, qty, reorder_level) ==
  IF \E r \in inv : r.item = item
  THEN {IF r.item = item
        THEN [r EXCEPT !.category = category, !.qty = qty,
                       !.reorder_level = reorder_level]
        ELSE r : r \in inv}
  ELSE inv \cup {[id |-> NextRowid(inv), item |-> item, category |-> category,
                  qty |-> qty, reorder_level |-> reorder_level]}

\* A bug: the bounds check is skipped and the store clamps at zero.
AdjustNewQtyClamped(qty, multiplier, delta) ==
  IF qty + multiplier * delta < 0 THEN 0 ELSE qty + multiplier * delta

\* new_qty = row["qty"] + multiplier * delta
AdjustNewQty(qty, multiplier, delta) == qty + multiplier * delta

\* UPDATE inventory SET qty = ? WHERE id = ?
UpdateQty(inv, id, new_qty) ==
  {IF r.id = id THEN [r EXCEPT !.qty = new_qty] ELSE r : r \in inv}

\* A bug: the order is recorded but the stock is left as it was.
DecrementQtyNoop(inv, id, qty) == inv

\* UPDATE inventory SET qty = qty - ? WHERE id = ?   (before the CHECK)
DecrementQty(inv, id, qty) ==
  {IF r.id = id THEN [r EXCEPT !.qty = r.qty - qty] ELSE r : r \in inv}

\* CHECK (qty >= 0) and CHECK (reorder_level >= 0) on inventory
CheckInventory(inv) == \A r \in inv : r.qty >= 0 /\ r.reorder_level >= 0

\* INSERT INTO orders (item_id, qty, note, ordered_at) VALUES (?, ?, ?, ?)
InsertOrder(ords, item_id, qty, note, ordered_at) ==
  ords \cup {[id |-> NextRowid(ords), item_id |-> item_id, qty |-> qty,
              note |-> note, ordered_at |-> ordered_at]}

\* DELETE FROM inventory WHERE item = ?
DeleteRows(inv, item) == {r \in inv : r.item # item}

(* ------------------------------ queries -------------------------------- *)
\* All sequences that list the set S once each, every adjacent pair in the
\* relation Ord (rows with equal keys come in any order).
Listings(S, Ord) ==
  {f \in [1..Cardinality(S) -> S] :
     /\ \A i, j \in 1..Cardinality(S) : i # j => f[i] # f[j]
     /\ \A i \in 1..(Cardinality(S) - 1) : <<f[i], f[i + 1]>> \in Ord}

\* SELECT item, category, qty, reorder_level FROM inventory
InventorySet(inv) ==
  {[item |-> r.item, category |-> r.category, qty |-> r.qty,
    reorder_level |-> r.reorder_level] : r \in inv}

\* ... ORDER BY item
InventoryRows(inv) ==
  Listings(InventorySet(inv),
           {p \in InventorySet(inv) \X InventorySet(inv) :
              TextLess(p[1].item, p[2].item)})

\* A bug: `<` where the query has `<=`.
LowStockSetStrict(inv) ==
  {[item |-> r.item, qty |-> r.qty, reorder_level |-> r.reorder_level] :
     r \in {x \in inv : x.qty < x.reorder_level}}

\* SELECT item, qty, reorder_level FROM inventory WHERE qty <= reorder_level
LowStockSet(inv) ==
  {[item |-> r.item, qty |-> r.qty, reorder_level |-> r.reorder_level] :
     r \in {x \in inv : x.qty <= x.reorder_level}}

\* ... ORDER BY qty
LowStockRows(inv) ==
  Listings(LowStockSet(inv),
           {p \in LowStockSet(inv) \X LowStockSet(inv) : p[1].qty <= p[2].qty})

\* SELECT o.id, i.item, o.qty, o.note, o.ordered_at
\* FROM orders o JOIN inventory i ON o.item_id = i.id
OrderJoin(inv, ords) ==
  {[id |-> o.id, item |-> i.item, qty |-> o.qty, note |-> o.note,
    ordered_at |-> o.ordered_at] :
     <<o, i>> \in {p \in ords \X inv : p[1].item_id = p[2].id}}

\* ... ORDER BY o.ordered_at DESC
OrderRows(inv, ords) ==
  Listings(OrderJoin(inv, ords),
           {p \in OrderJoin(inv, ords) \X OrderJoin(inv, ords) :
              p[1].ordered_at >= p[2].ordered_at})

(* ------------------------------ input ---------------------------------- *)
\* prompt_int(message, minimum=m): re-prompts until the number typed is at
\* least m, so the values it can return out of `typed` are those >= m.
PromptInt(typed, minimum) == {v \in typed : v >= minimum}

\* direction = input(...).strip().lower() or "a"
Direction(raw) == IF Lower(Strip(raw)) = <<>> THEN <<"a">> ELSE Lower(Strip(raw))

\* multiplier = 1 if direction.startswith("a") else -1
Multiplier(direction) == IF Head(direction) = "a" THEN 1 ELSE -1

\* category = input(...).strip() or "General"
Category(raw) == IF Strip(raw) = <<>> THEN General ELSE Strip(raw)

NoLoc == [id |-> 0, qty |-> 0, arg |-> 0, note |-> NULL]

Sessions == {1, 2}

NoFile == [exists |-> FALSE, text |-> <<>>]

Idle == [op |-> "start", msg |-> "menu"]

(* --------------------------- whole handlers ---------------------------- *)
\* Menu option 1.
AddOrUpdateItem(s, rawItem, rawCategory, qty, reorder_level) ==
  /\ pc[s] = "menu"
  /\ LET item == Strip(rawItem)
         category == Category(rawCategory)
     IN IF item = <<>>
        THEN /\ last' = [last EXCEPT ![s] =
                           [op |-> "add", msg |-> "Item name cannot be empty."]]
             /\ UNCHANGED <<inventory, pc>>
        ELSE /\ SelectItem(inventory, item) = {} => NextRowid(inventory) <= MaxId
             /\ IF CheckInventory(Upsert(inventory, item, category, qty, reorder_level))
                THEN /\ inventory' = Upsert(inventory, item, category, qty, reorder_level)
                     /\ last' = [last EXCEPT ![s] =
                                   [op |-> "add", msg |-> "Saved", item |-> item,
                                    category |-> category, qty |-> qty,
                                    reorder_level |-> reorder_level]]
                     /\ UNCHANGED pc
                ELSE /\ pc' = [pc EXCEPT ![s] = "crashed"]
                     /\ last' = [last EXCEPT ![s] =
                                   [op |-> "add", msg |-> "IntegrityError"]]
                     /\ UNCHANGED inventory
  /\ UNCHANGED <<orders, now, exportFile, loc>>

\* Menu option 2.
ViewInventory(s) ==
  /\ pc[s] = "menu"
  /\ \E rows \in InventoryRows(inventory) :
       last' = [last EXCEPT ![s] =
                  [op |-> "view_inventory",
                   msg |-> IF rows = <<>> THEN "Inventory is empty." ELSE "rows",
                   rows |-> rows]]
  /\ UNCHANGED <<inventory, orders, now, exportFile, pc, loc>>

\* Menu option 4.
AdjustQuantity(s, rawItem, delta, rawDirection) ==
  /\ pc[s] = "menu"
  /\ LET item == Strip(rawItem)
         multiplier == Multiplier(Direction(rawDirection))
         found == SelectItem(inventory, item)
     IN IF found = {}
        THEN /\ last' = [last EXCEPT ![s] =
                           [op |-> "adjust", msg |-> "Item not found."]]
             /\ UNCHANGED <<inventory, pc>>
        ELSE LET row == CHOOSE r \in found : TRUE
                 new_qty == AdjustNewQty(row.qty, multiplier, delta)
             IN IF new_qty < 0
                THEN /\ last' = [last EXCEPT ![s] =
                                   [op |-> "adjust", msg |-> "Cannot reduce below zero.",
                                    item |-> item, change |-> multiplier * delta]]
                     /\ UNCHANGED <<inventory, pc>>
                ELSE /\ new_qty <= MaxQty
                     /\ IF CheckInventory(UpdateQty(inventory, row.id, new_qty))
                        THEN /\ inventory' = UpdateQty(inventory, row.id, new_qty)
                             /\ last' = [last EXCEPT ![s] =
                                           [op |-> "adjust", msg |-> "now has",
                                            item |-> item,
                                            change |-> multiplier * delta,
                                            new_qty |-> new_qty]]
                             /\ UNCHANGED pc
                        ELSE /\ pc' = [pc EXCEPT ![s] = "crashed"]
                             /\ last' = [last EXCEPT ![s] =
                                           [op |-> "adjust", msg |-> "IntegrityError"]]
                             /\ UNCHANGED inventory
  /\ UNCHANGED <<orders, now, exportFile, loc>>

\* Menu option 5.
PlaceOrder(s, rawItem, qty, rawNote) ==
  /\ pc[s] = "menu"
  /\ LET item == Strip(rawItem)
         note == Strip(rawNote)
         found == SelectItem(inventory, item)
     IN IF found = {}
        THEN /\ last' = [last EXCEPT ![s] =
                           [op |-> "order", msg |-> "Item not found."]]
             /\ UNCHANGED <<inventory, orders, now, pc>>
        ELSE LET row == CHOOSE r \in found : TRUE
             IN IF row.qty < qty
                THEN /\ last' = [last EXCEPT ![s] =
                                   [op |-> "order",
                                    msg |-> "Not enough stock for this order.",
                                    item |-> item, qty |-> qty]]
                     /\ UNCHANGED <<inventory, orders, now, pc>>
                ELSE /\ Cardinality(orders) < MaxOrders
                     /\ IF CheckInventory(DecrementQty(inventory, row.id, qty))
                        THEN /\ inventory' = DecrementQty(inventory, row.id, qty)
                             /\ orders' = InsertOrder(orders, row.id, qty, note, now)
                             /\ now' = now + 1
                             /\ last' = [last EXCEPT ![s] =
                                           [op |-> "order", msg |-> "Order recorded",
                                            item |-> item, qty |-> qty, note |-> note]]
                             /\ UNCHANGED pc
                        ELSE /\ pc' = [pc EXCEPT ![s] = "crashed"]
                             /\ last' = [last EXCEPT ![s] =
                                           [op |-> "order", msg |-> "IntegrityError"]]
                             /\ UNCHANGED <<inventory, orders, now>>
  /\ UNCHANGED <<exportFile, loc>>

\* Menu option 6.
ViewOrders(s) ==
  /\ pc[s] = "menu"
  /\ \E rows \in OrderRows(inventory, orders) :
       last' = [last EXCEPT ![s] =
                  [op |-> "view_orders",
                   msg |-> IF rows = <<>> THEN "No orders recorded." ELSE "rows",
                   rows |-> rows]]
  /\ UNCHANGED <<inventory, orders, now, exportFile, pc, loc>>

\* Menu option 7.
ViewLowStock(s) ==
  /\ pc[s] = "menu"
  /\ \E rows \in LowStockRows(inventory) :
       last' = [last EXCEPT ![s] =
                  [op |-> "view_low_stock",
                   msg |-> IF rows = <<>> THEN "No items at or below reorder level."
                           ELSE "Items needing restock:",
                   rows |-> rows]]
  /\ UNCHANGED <<inventory, orders, now, exportFile, pc, loc>>

\* Menu option 8.
DeleteItem(s, rawItem) ==
  /\ pc[s] = "menu"
  /\ LET item == Strip(rawItem)
         deleted == Cardinality(SelectItem(inventory, item))
     IN /\ inventory' = DeleteRows(inventory, item)
        /\ last' = [last EXCEPT ![s] =
                      IF deleted # 0
                      THEN [op |-> "delete", msg |-> "Deleted", item |-> item]
                      ELSE [op |-> "delete", msg |-> "Item not found."]]
  /\ UNCHANGED <<orders, now, exportFile, pc, loc>>

\* Menu option 11.
Exit(s) ==
  /\ pc[s] = "menu"
  /\ pc' = [pc EXCEPT ![s] = "exited"]
  /\ last' = [last EXCEPT ![s] = [op |-> "exit", msg |-> "bye"]]
  /\ UNCHANGED <<inventory, orders, now, exportFile, loc>>

(* ------------------------------ export --------------------------------- *)
DigitChar(d) ==
  CASE d = 0 -> "0" [] d = 1 -> "1" [] d = 2 -> "2" [] d = 3 -> "3" [] d = 4 -> "4"
    [] d = 5 -> "5" [] d = 6 -> "6" [] d = 7 -> "7" [] d = 8 -> "8" [] d = 9 -> "9"

\* str(n) for the non-negative integers the table holds
RECURSIVE IntText(_)
IntText(n) ==
  IF n < 10 THEN <<DigitChar(n)>> ELSE IntText(n \div 10) \o <<DigitChar(n % 10)>>

\* csv.writer, excel dialect, QUOTE_MINIMAL: a field is quoted when it holds
\* the delimiter, the quote character or a line-terminator character.
NeedsQuote(field) == \E i \in 1..Len(field) : field[i] \in {",", "\"", "\r", "\n"}

\* doublequote=True: every quote character inside a quoted field is doubled.
RECURSIVE DoubleQuotes(_)
DoubleQuotes(field) ==
  IF field = <<>> THEN <<>>
  ELSE (IF Head(field) = "\"" THEN <<"\"", "\"">> ELSE <<Head(field)>>)
         \o DoubleQuotes(Tail(field))

\* A bug: the field is written as it is, no quoting.
CsvFieldRaw(field) == field

CsvField(field) ==
  IF NeedsQuote(field) THEN <<"\"">> \o DoubleQuotes(field) \o <<"\"">> ELSE field

RECURSIVE JoinFields(_)
JoinFields(fields) ==
  IF Len(fields) = 1 THEN CsvField(fields[1])
  ELSE CsvField(Head(fields)) \o <<",">> \o JoinFields(Tail(fields))

\* writer.writerow(fields): the fields joined by "," and ended by "\r\n"
CsvLine(fields) == JoinFields(fields) \o <<"\r", "\n">>

HeaderRow ==
  << <<"i", "t", "e", "m">>,
     <<"c", "a", "t", "e", "g", "o", "r", "y">>,
     <<"q", "t", "y">>,
     <<"r", "e", "o", "r", "d", "e", "r", "_", "l", "e", "v", "e", "l">> >>

RECURSIVE CsvLines(_)
CsvLines(rows) ==
  IF rows = <<>> THEN <<>>
  ELSE CsvLine(<<Head(rows).item, Head(rows).category, IntText(Head(rows).qty),
                 IntText(Head(rows).reorder_level)>>) \o CsvLines(Tail(rows))

\* The text export_inventory writes for the rows it selected.
CsvText(rows) == CsvLine(HeaderRow) \o CsvLines(rows)

\* Menu option 9.
ExportInventory(s) ==
  /\ pc[s] = "menu"
  /\ \E rows \in InventoryRows(inventory) :
       IF rows = <<>>
       THEN /\ last' = [last EXCEPT ![s] =
                          [op |-> "export",
                           msg |-> "Inventory empty, nothing to export."]]
            /\ UNCHANGED exportFile
       ELSE /\ exportFile' = [exists |-> TRUE, text |-> CsvText(rows)]
            /\ last' = [last EXCEPT ![s] =
                          [op |-> "export", msg |-> "Exported", count |-> Len(rows)]]
  /\ UNCHANGED <<inventory, orders, now, pc, loc>>

(* --------------------- one interactive session ------------------------- *)
\* What the user types.  Names and notes come with surrounding blanks, a
\* blank line stands for "nothing typed"; numbers include one below every
\* minimum.
NameInputs == {<<"a">>, <<" ", "b">>, <<" ">>}
ItemInputs == {<<"a">>, <<" ", "b">>}
QtyInputs == {-1, 0, MaxQty}
DeltaInputs == {-1, 0, 1}
DirectionInputs == {<<>>, <<"S">>}
\* <<category typed, reorder level typed>>
AddForms == {<<<<>>, 0>>, <<<<"T">>, 1>>, <<<<"T">>, -1>>}
\* <<quantity typed, note typed>>
OrderForms == {<<0, <<>>>>, <<1, <<" ">>>>, <<2, <<"r", " ">>>>}

\* create_tables() on a fresh database file, then the menu.
Init ==
  /\ inventory = {}
  /\ orders = {}
  /\ now = 0
  /\ exportFile = NoFile
  /\ pc = [s \in Sessions |-> "menu"]
  /\ loc = [s \in Sessions |-> NoLoc]
  /\ last = [s \in Sessions |-> Idle]

Next ==
  \/ \E n \in NameInputs, f \in AddForms :
       \E q \in PromptInt(QtyInputs, 0), r \in PromptInt({f[2]}, 0) :
         AddOrUpdateItem(1, n, f[1], q, r)
  \/ ViewInventory(1)
  \/ \E n \in ItemInputs, d \in PromptInt(DeltaInputs, 0), a \in DirectionInputs :
       AdjustQuantity(1, n, d, a)
  \/ \E n \in ItemInputs, f \in OrderForms :
       \E q \in PromptInt({f[1]}, 1) : PlaceOrder(1, n, q, f[2])
  \/ ViewOrders(1)
  \/ ViewLowStock(1)
  \/ \E n \in ItemInputs : DeleteItem(1, n)
  \/ Exit(1)

Spec == Init /\ [][Next]_vars

(* ------------------- properties of the single session ------------------ *)
ItemNamed(inv, item) == CHOOSE r \in inv : r.item = item

NamedIn(inv, item) == \E r \in inv : r.item = item

\* C1: deleting an Item removes it from List-items, and every Order placed
\* against it before the delete is still returned by List-orders afterwards
\* with the same quantity, note and timestamp.
C1_DeleteKeepsOrdersListed ==
  [][(last'[1].op = "delete" /\ last'[1].msg = "Deleted") =>
       /\ ~NamedIn(inventory', last'[1].item)
       /\ \A x \in OrderJoin(inventory, orders) :
            x.item = last'[1].item =>
              \E y \in OrderJoin(inventory', orders') :
                /\ y.id = x.id /\ y.qty = x.qty
                /\ y.note = x.note /\ y.ordered_at = x.ordered_at]_vars

C4_UpsertReplacesInPlace ==
  [][(last'[1].op = "add" /\ last'[1].msg = "Saved"
        /\ NamedIn(inventory, last'[1].item)) =>
       LET old == ItemNamed(inventory, last'[1].item)
           new == {r \in inventory' : r.item = last'[1].item}
       IN /\ Cardinality(new) = 1
          /\ \A r \in new :
               /\ r.id = old.id
               /\ r.category = last'[1].category
               /\ r.qty = last'[1].qty
               /\ r.reorder_level = last'[1].reorder_level
          /\ inventory' \ new = inventory \ {old}
          /\ UNCHANGED orders]_vars

\* Item a holds id 1 beside Item b with id 2, so a has been in the table
\* since before b was inserted; the add of a that has just been saved hit the
\* existing row, which an Order references.
C4_Witness ==
  /\ last[1].op = "add" /\ last[1].msg = "Saved" /\ last[1].item = <<"a">>
  /\ last[1].category = <<"T">>
  /\ \E r, t \in inventory :
       /\ r.item = <<"a">> /\ r.id = 1 /\ t.item = <<"b">> /\ t.id = 2
  /\ \E o \in orders : o.item_id = 1

Range(f) == {f[i] : i \in DOMAIN f}

\* C8: List-low-stock returns exactly the Items with quantity <= reorder
\* level: each of them once, and no Item with quantity > reorder level.
C8_LowStockExact ==
  last[1].op = "view_low_stock" =>
    /\ Range(last[1].rows) =
         {[item |-> r.item, qty |-> r.qty, reorder_level |-> r.reorder_level] :
            r \in {x \in inventory : x.qty <= x.reorder_level}}
    /\ Len(last[1].rows) =
         Cardinality({x \in inventory : x.qty <= x.reorder_level})

\* The listing shows an Item exactly at its reorder level and leaves out
\* another Item that is above its level.
C8_Witness ==
  /\ last[1].op = "view_low_stock"
  /\ \E x \in Range(last[1].rows) : x.qty = x.reorder_level /\ x.qty > 0
  /\ \E r \in inventory : r.qty > r.reorder_level

\* C10: Item ids are never reused: an id that an Order references never
\* comes to denote another Item than the one the Order was placed against,
\* so List-orders never reports an Order under another Item's name.
C10_IdsNeverReused ==
  [][\A r \in inventory' :
       (\E o \in orders : o.item_id = r.id) =>
          \E q \in inventory : q.id = r.id /\ q.item = r.item]_vars

(* ----------------- a session that edits and exports --------------------- *)
\* Names and categories that hold the delimiter and the quote character,
\* quantities of one, two and three digits.
CsvNameInputs == {<<"a", ",">>, <<" ", "\"", "b">>}
\* <<category typed, quantity typed, reorder level typed>>
CsvAddForms == {<<<<>>, 0, 5>>, <<<<"T", ",", "\"">>, 12, 0>>, <<<<"T">>, 205, 10>>}

NextExport ==
  \/ \E n \in CsvNameInputs, f \in CsvAddForms :
       \E q \in PromptInt({f[2]}, 0), r \in PromptInt({f[3]}, 0) :
         AddOrUpdateItem(1, n, f[1], q, r)
  \/ \E n \in CsvNameInputs : DeleteItem(1, n)
  \/ ViewInventory(1)
  \/ ExportInventory(1)
  \/ Exit(1)

SpecExport == Init /\ [][NextExport]_vars

(* Reading the exported text back, as Python's csv.reader does with the     *)
(* excel dialect: fields split at "," and records at "\r\n", a field that   *)
(* starts with a quote runs to the closing quote, "" inside it is one       *)
(* quote; the numeric columns are parsed back with int().                   *)
IsEol(c) == c \in {"\r", "\n"}

\* One field: its text, and the input left at the "," or line end after it.
RECURSIVE ReadField(_, _, _)
ReadField(text, mode, field) ==
  IF text = <<>> THEN [field |-> field, rest |-> <<>>]
  ELSE LET c == Head(text)
           stop == [field |-> field, rest |-> text]
       IN CASE mode = "start" ->
                 IF c = "\"" THEN ReadField(Tail(text), "quoted", <<>>)
                 ELSE IF c = "," \/ IsEol(c) THEN stop
                 ELSE ReadField(Tail(text), "plain", <<c>>)
            [] mode = "plain" ->
                 IF c = "," \/ IsEol(c) THEN stop
                 ELSE ReadField(Tail(text), "plain", Append(field, c))
            [] mode = "quoted" ->
                 IF c = "\"" THEN ReadField(Tail(text), "quote_in_quoted", field)
                 ELSE ReadField(Tail(text), "quoted", Append(field, c))
            [] mode = "quote_in_quoted" ->
                 IF c = "\"" THEN ReadField(Tail(text), "quoted", Append(field, c))
                 ELSE IF c = "," \/ IsEol(c) THEN stop
                 ELSE ReadField(Tail(text), "plain", Append(field, c))

\* The input after a line end: "\r\n", "\r" or "\n".
SkipEol(text) ==
  IF Head(text) = "\r" /\ Len(text) >= 2 /\ text[2] = "\n"
  THEN SubSeq(text, 3, Len(text))
  ELSE Tail(text)

\* One record: its fields, and the input after its line end.
RECURSIVE ReadRecord(_, _)
ReadRecord(text, row) ==
  LET f == ReadField(text, "start", <<>>)
  IN IF f.rest = <<>> THEN [row |-> Append(row, f.field), rest |-> <<>>]
     ELSE IF Head(f.rest) = "," THEN ReadRecord(Tail(f.rest), Append(row, f.field))
     ELSE [row |-> Append(row, f.field), rest |-> SkipEol(f.rest)]

RECURSIVE ReadRecords(_, _)
ReadRecords(text, rows) ==
  IF text = <<>> THEN rows
  ELSE IF IsEol(Head(text)) THEN ReadRecords(SkipEol(text), Append(rows, <<>>))
  ELSE LET r == ReadRecord(text, <<>>)
       IN ReadRecords(r.rest, Append(rows, r.row))

CsvParse(text) == ReadRecords(text, <<>>)

DigitValue(c) ==
  CASE c = "0" -> 0 [] c = "1" -> 1 [] c = "2" -> 2 [] c = "3" -> 3 [] c = "4" -> 4
    [] c = "5" -> 5 [] c = "6" -> 6 [] c = "7" -> 7 [] c = "8" -> 8 [] c = "9" -> 9

RECURSIVE TextInt(_)
TextInt(t) ==
  IF Len(t) = 1 THEN DigitValue(t[1])
  ELSE 10 * TextInt(SubSeq(t, 1, Len(t) - 1)) + DigitValue(t[Len(t)])

IsNumber(t) == t # <<>> /\ \A i \in 1..Len(t) : t[i] \in {"0", "1", "2", "3", "4", "5", "6", "7", "8", "9"}

\* The records of an exported text after the header row.
DataRows(text) == Tail(CsvParse(text))

\* Every data row has four fields, the last two of them numbers.
WellFormed(data) ==
  \A i \in 1..Len(data) :
    Len(data[i]) = 4 /\ IsNumber(data[i][3]) /\ IsNumber(data[i][4])

\* The tuples read back from well-formed data rows.
ReadBack(data) ==
  [i \in 1..Len(data) |->
     [item |-> data[i][1], category |-> data[i][2],
      qty |-> TextInt(data[i][3]), reorder_level |-> TextInt(data[i][4])]]

\* C9: with at least one Item, the data rows Export writes, read back in
\* order, are exactly the (item, category, qty, reorderLevel) tuples
\* List-items returns in the same state, in the same name-ascending order;
\* with no Item, Export writes nothing and leaves an earlier file unchanged.
C9_ExportRoundTrip ==
  [][last'[1].op = "export" =>
       IF inventory = {}
       THEN /\ last'[1].msg = "Inventory empty, nothing to export."
            /\ exportFile' = exportFile
       ELSE /\ last'[1].msg = "Exported"
            /\ exportFile'.exists
            /\ CsvParse(exportFile'.text)[1] = HeaderRow
            /\ \A rows \in InventoryRows(inventory') :
                 /\ WellFormed(DataRows(exportFile'.text))
                 /\ ReadBack(DataRows(exportFile'.text)) = rows
                 /\ \A i \in 1..(Len(rows) - 1) : TextLess(rows[i].item, rows[i + 1].item)]_vars

\* Two Items whose names hold a comma and a quote were exported, the one
\* inserted second listed first, with a three-digit quantity.
C9_Witness ==
  /\ last[1].op = "export" /\ last[1].msg = "Exported" /\ last[1].count = 2
  /\ \E r, t \in inventory :
       /\ r.item = <<"a", ",">> /\ r.id = 1 /\ r.qty = 205
       /\ t.item = <<"\"", "b">> /\ t.id = 2 /\ t.category = <<"T", ",", "\"">>
  /\ ReadBack(DataRows(exportFile.text))[1].item = <<"\"", "b">>

(* ------------- two sessions on the same database file ------------------ *)
(* Each session is a process running main() on inventory.db.  A handler     *)
(* with one statement is one step.  adjust_quantity and place_order are two *)
(* steps: the SELECT, which runs outside any transaction, and then the      *)
(* write transaction (UPDATE[, INSERT], commit), which SQLite isolates from *)
(* other connections.                                                       *)

\* adjust_quantity up to the UPDATE: the lookup and the bounds check.
AdjustRead(s, rawItem, delta, rawDirection) ==
  /\ pc[s] = "menu"
  /\ LET item == Strip(rawItem)
         multiplier == Multiplier(Direction(rawDirection))
         found == SelectItem(inventory, item)
     IN IF found = {}
        THEN /\ last' = [last EXCEPT ![s] =
                           [op |-> "adjust", msg |-> "Item not found."]]
             /\ UNCHANGED <<pc, loc>>
        ELSE LET row == CHOOSE r \in found : TRUE
                 new_qty == AdjustNewQty(row.qty, multiplier, delta)
             IN IF new_qty < 0
                THEN /\ last' = [last EXCEPT ![s] =
                                   [op |-> "adjust", msg |-> "Cannot reduce below zero.",
                                    item |-> item, change |-> multiplier * delta]]
                     /\ UNCHANGED <<pc, loc>>
                ELSE /\ new_qty <= MaxQty
                     /\ pc' = [pc EXCEPT ![s] = "adjust_update"]
                     /\ loc' = [loc EXCEPT ![s] =
                                  [id |-> row.id, qty |-> row.qty, arg |-> new_qty,
                                   note |-> NULL]]
                     /\ last' = [last EXCEPT ![s] = [op |-> "adjust", msg |-> "..."]]
  /\ UNCHANGED <<inventory, orders, now, exportFile>>

\* adjust_quantity from the UPDATE on: the write transaction.
AdjustWrite(s) ==
  /\ pc[s] = "adjust_update"
  /\ IF CheckInventory(UpdateQty(inventory, loc[s].id, loc[s].arg))
     THEN /\ inventory' = UpdateQty(inventory, loc[s].id, loc[s].arg)
          /\ pc' = [pc EXCEPT ![s] = "menu"]
          /\ last' = [last EXCEPT ![s] =
                        [op |-> "adjust", msg |-> "now has", new_qty |-> loc[s].arg]]
     ELSE /\ pc' = [pc EXCEPT ![s] = "crashed"]
          /\ last' = [last EXCEPT ![s] = [op |-> "adjust", msg |-> "IntegrityError"]]
          /\ UNCHANGED inventory
  /\ loc' = [loc EXCEPT ![s] = NoLoc]
  /\ UNCHANGED <<orders, now, exportFile>>

PendingOrders == Cardinality({s \in Sessions : pc[s] = "order_update"})

\* place_order up to the UPDATE: the lookup and the stock check.
OrderRead(s, rawItem, qty, rawNote) ==
  /\ pc[s] = "menu"
  /\ LET item == Strip(rawItem)
         note == Strip(rawNote)
         found == SelectItem(inventory, item)
     IN IF found = {}
        THEN /\ last' = [last EXCEPT ![s] =
                           [op |-> "order", msg |-> "Item not found."]]
             /\ UNCHANGED <<pc, loc>>
        ELSE LET row == CHOOSE r \in found : TRUE
             IN IF row.qty < qty
                THEN /\ last' = [last EXCEPT ![s] =
                                   [op |-> "order",
                                    msg |-> "Not enough stock for this order.",
                                    item |-> item, qty |-> qty]]
                     /\ UNCHANGED <<pc, loc>>
                ELSE /\ Cardinality(orders) + PendingOrders < MaxOrders
                     /\ pc' = [pc EXCEPT ![s] = "order_update"]
                     /\ loc' = [loc EXCEPT ![s] =
                                  [id |-> row.id, qty |-> row.qty, arg |-> qty,
                                   note |-> note]]
                     /\ last' = [last EXCEPT ![s] = [op |-> "order", msg |-> "..."]]
  /\ UNCHANGED <<inventory, orders, now, exportFile>>

\* place_order from the UPDATE on: the write transaction.  A CHECK failure
\* raises sqlite3.IntegrityError out of `with conn` (rollback) and out of
\* main(), which catches nothing.
OrderWrite(s) ==
  /\ pc[s] = "order_update"
  /\ IF CheckInventory(DecrementQty(inventory, loc[s].id, loc[s].arg))
     THEN /\ inventory' = DecrementQty(inventory, loc[s].id, loc[s].arg)
          /\ orders' = InsertOrder(orders, loc[s].id, loc[s].arg, loc[s].note, now)
          /\ now' = now + 1
          /\ pc' = [pc EXCEPT ![s] = "menu"]
          /\ last' = [last EXCEPT ![s] = [op |-> "order", msg |-> "Order recorded"]]
     ELSE /\ pc' = [pc EXCEPT ![s] = "crashed"]
          /\ last' = [last EXCEPT ![s] = [op |-> "order", msg |-> "IntegrityError"]]
          /\ UNCHANGED <<inventory, orders, now>>
  /\ loc' = [loc EXCEPT ![s] = NoLoc]
  /\ UNCHANGED exportFile

MultiItemInputs == {<<"a">>, <<"b">>}
\* <<category typed, quantity typed, reorder level typed>>
MultiAddForms == {<<<<>>, 1, 0>>, <<<<>>, MaxQty, 0>>}
MultiDeltaInputs == {1}
\* <<quantity typed, note typed>>
MultiOrderForms == {<<1, <<>>>>}

NextMulti ==
  \E s \in Sessions :
    \/ \E n \in MultiItemInputs, f \in MultiAddForms :
         AddOrUpdateItem(s, n, f[1], f[2], f[3])
    \/ \E n \in MultiItemInputs, d \in PromptInt(MultiDeltaInputs, 0),
          a \in DirectionInputs : AdjustRead(s, n, d, a)
    \/ AdjustWrite(s)
    \/ \E n \in MultiItemInputs, f \in MultiOrderForms :
         \E q \in PromptInt({f[1]}, 1) : OrderRead(s, n, q, f[2])
    \/ OrderWrite(s)
    \/ \E n \in MultiItemInputs : DeleteItem(s, n)
    \/ Exit(s)

SpecMulti == Init /\ [][NextMulti]_vars

\* C5: when two sessions run adjust-quantity or place-order on one Item
\* concurrently, no update is lost: an accepted operation that commits after
\* the other session's accepted operation changes the quantity stored at
\* that moment by exactly its signed change, so it has not acted on a stale
\* read.
C5_NoLostUpdate ==
  [][\A s, u \in Sessions :
       (s # u /\ last[u].msg \in {"now has", "Order recorded"}) =>
         /\ (pc[s] = "adjust_update" /\ pc'[s] = "menu") =>
              \A r \in inventory : r.id = loc[s].id =>
                \E t \in inventory' :
                  t.id = r.id /\ t.qty = r.qty + (loc[s].arg - loc[s].qty)
         /\ (pc[s] = "order_update" /\ pc'[s] = "menu") =>
              \A r \in inventory : r.id = loc[s].id =>
                \E t \in inventory' : t.id = r.id /\ t.qty = r.qty - loc[s].arg]_vars

\* C6: place-order commits the decrement of the Item's quantity and the new
\* Order row together or not at all; when a write is rejected neither the
\* Item's quantity nor the Order table changes.
C6_OrderAtomic ==
  [][\A s \in Sessions :
       (pc[s] = "order_update" /\ pc'[s] # "order_update") =>
          \/ UNCHANGED <<inventory, orders>>
          \/ /\ orders \subseteq orders'
             /\ Cardinality(orders' \ orders) = 1
             /\ \E o \in orders' \ orders, r \in inventory :
                  /\ o.item_id = r.id /\ o.qty = loc[s].arg
                  /\ inventory' = (inventory \ {r}) \cup
                                    {[r EXCEPT !.qty = r.qty - o.qty]}]_vars

\* C7: no error raised inside an operation ends the process; a session
\* leaves the menu loop only through Exit.
C7_NoErrorEndsProcess == \A s \in Sessions : pc[s] # "crashed"

====
